---- MODULE Spec2Model ----
(***************************************************************************)
(* A model of the P2P-CI system: the directory server (server.py) with its *)
(* registry (peers, rfc_index) behind one lock and one thread per accepted *)
(* connection, and the peer-to-peer document exchange of peer.py           *)
(* (process_upload_request on the serving peer, get_rfc on the fetching    *)
(* peer).                                                                  *)
(*                                                                         *)
(* Text is modelled by its structure: a request is a sequence of lines, a  *)
(* line is what ':' in line, line.split(':', 1) and line.split() make of   *)
(* it; a file or a peer response is a sequence of characters.              *)
(***************************************************************************)
EXTENDS Integers, Sequences, FiniteSets, TLC

\* ---------------------------------------------------------------------------
\* Bounds
\* ---------------------------------------------------------------------------
NumConns == 2          \* connections accepted by the directory server
MaxMsgs == 3           \* reads that return data, over all connections

Conns == 1..NumConns

\* ---------------------------------------------------------------------------
\* Program constants and small helpers
\* ---------------------------------------------------------------------------
PROTOCOL_VERSION == "PCP-CI/1.0"

\* Python's None is the empty tuple, a value x is <<x>>.
None == << >>
Some(x) == <<x>>
Val(o) == o[1]

Range(s) == {s[i] : i \in 1..Len(s)}

\* the subsequence of s at the positions in keep, in order
RECURSIVE SelectIdxFrom(_, _, _)
SelectIdxFrom(s, keep, i) ==
  IF i > Len(s) THEN << >>
  ELSE (IF i \in keep THEN <<s[i]>> ELSE << >>) \o SelectIdxFrom(s, keep, i + 1)
SelectIdx(s, keep) == SelectIdxFrom(s, keep, 1)

\* int(s) over the literals the requests of this model carry; every other
\* token raises ValueError.  "01" and "1" are two spellings of one integer.
IntTable ==
     ("0" :> 0) @@ ("1" :> 1) @@ ("01" :> 1) @@ ("2" :> 2)
  @@ ("7001" :> 7001) @@ ("7002" :> 7002)
IsIntLiteral(s) == s \in DOMAIN IntTable
int(s) == IntTable[s]

\* str(n), as the f-strings of handle_add / handle_lookup / handle_list format it
StrTable ==
  (0 :> "0") @@ (1 :> "1") @@ (2 :> "2") @@ (7001 :> "7001") @@ (7002 :> "7002")
str(n) == StrTable[n]

\* ---------------------------------------------------------------------------
\* Request text
\* ---------------------------------------------------------------------------
\* A line without ':' is its whitespace-separated tokens; a line "Key: Value"
\* has ':' in it, key and val are what line.split(':', 1) and strip() give.
ReqLine(toks) == [colon |-> FALSE, key |-> "", val |-> "", toks |-> toks]
HdrLine(k, v) == [colon |-> TRUE, key |-> k, val |-> v, toks |-> <<k, v>>]
BlankLine == [colon |-> FALSE, key |-> "", val |-> "", toks |-> << >>]

IsBlank(l) == ~l.colon /\ l.toks = << >>

\* raw.replace("\r\n", "\n").strip().split('\n'): leading and trailing blank
\* lines go, and the text that is left always has a first line
RECURSIVE LStrip(_)
LStrip(ls) ==
  IF ls = << >> THEN << >>
  ELSE IF IsBlank(Head(ls)) THEN LStrip(Tail(ls))
  ELSE ls

RECURSIVE RStrip(_)
RStrip(ls) ==
  IF ls = << >> THEN << >>
  ELSE IF IsBlank(ls[Len(ls)]) THEN RStrip(SubSeq(ls, 1, Len(ls) - 1))
  ELSE ls

SplitLines(raw) ==
  LET s == RStrip(LStrip(raw))
  IN  IF s = << >> THEN <<BlankLine>> ELSE s

\* P2PServer.extract_headers: every line after the first that has a ':' sets
\* headers[key] = value; a later line overrides an earlier one.
extract_headers(raw_request) ==
  LET lines == SplitLines(raw_request)
      idx == {i \in 2..Len(lines) : lines[i].colon}
      keys == {lines[i].key : i \in idx}
      last(k) == CHOOSE i \in idx :
                   /\ lines[i].key = k
                   /\ \A j \in idx : lines[j].key = k => j <= i
  IN  [k \in keys |-> lines[last(k)].val]

\* headers.get(key, "")
Get(headers, k) == IF k \in DOMAIN headers THEN headers[k] ELSE ""

\* ---------------------------------------------------------------------------
\* Responses of the directory server
\* ---------------------------------------------------------------------------
\* P2PServer._build_response: status line "<version> <code> <phrase>", the
\* standard headers (not modelled: Date, OS, ...), a blank line, the body.
\* The body is the sequence of its CRLF-joined lines.
_build_response(status_code, phrase, body) ==
  [version |-> PROTOCOL_VERSION, code |-> status_code, phrase |-> phrase,
   body |-> body]

NoResponse == [version |-> "", code |-> 0, phrase |-> "", body |-> << >>]

BadRequest == _build_response(400, "Bad Request", << >>)
VersionNotSupported == _build_response(505, "PCP-CI Version Not Supported", << >>)

\* f"RFC {r} {t} {n} {h} {p}"
FormatRecord(rec) == <<"RFC", str(rec[1]), rec[2], rec[3], rec[4], str(rec[5])>>

\* ---------------------------------------------------------------------------
\* Request handling of the directory server (pure part)
\* ---------------------------------------------------------------------------
\* lines[0].split()
RequestLineOf(request) == SplitLines(request)[1].toks

\* request_line[1:3]
RfcPartOf(request) ==
  LET rl == RequestLineOf(request)
  IN  SubSeq(rl, 2, IF Len(rl) < 3 THEN Len(rl) ELSE 3)

\* handle_add, up to the lock: the checks that answer 400
AddWellFormed(rfc_part, headers) ==
  LET host == Get(headers, "Host")
      peer_name == IF Get(headers, "Hostname") # "" THEN headers["Hostname"] ELSE host
      port == Get(headers, "Port")
      title == Get(headers, "Title")
  IN  /\ Len(rfc_part) >= 2
      /\ rfc_part[1] = "RFC"
      /\ IsIntLiteral(rfc_part[2])
      /\ host # "" /\ port # "" /\ title # "" /\ peer_name # ""
      /\ IsIntLiteral(port)

\* handle_add: record = (rfc_num, title, peer_name, host, port_num)
AddRecordOf(rfc_part, headers) ==
  LET host == Get(headers, "Host")
      peer_name == IF Get(headers, "Hostname") # "" THEN headers["Hostname"] ELSE host
  IN  <<int(rfc_part[2]), Get(headers, "Title"), peer_name, host,
        int(Get(headers, "Port"))>>

\* the (peer_name, host, port) of a record
OwnerOf(rec) == <<rec[3], rec[4], rec[5]>>

\* handle_lookup, up to the lock: the checks that answer 400
LookupWellFormed(rfc_part) ==
  /\ Len(rfc_part) >= 2
  /\ rfc_part[1] = "RFC"
  /\ IsIntLiteral(rfc_part[2])

\* faulty variant: process_request without the version test of lines 120-121
process_requestAnyVersion(request) ==
  LET request_line == RequestLineOf(request)
      method == request_line[1]
      rfc_part == RfcPartOf(request)
      headers == extract_headers(request)
  IN  IF Len(request_line) < 3 THEN "400"
      ELSE IF method = "ADD"
             THEN (IF AddWellFormed(rfc_part, headers) THEN "ADD" ELSE "400")
      ELSE IF method = "LOOKUP"
             THEN (IF LookupWellFormed(rfc_part) THEN "LOOKUP" ELSE "400")
      ELSE IF method = "LIST" THEN "LIST"
      ELSE "400"

\* process_request: which answer or handler the request gets.  "ADD",
\* "LOOKUP", "LIST" are the handlers' paths that reach the registry lock.
process_request(request) ==
  LET request_line == RequestLineOf(request)
      method == request_line[1]
      rfc_part == RfcPartOf(request)
      version == request_line[Len(request_line)]
      headers == extract_headers(request)
  IN  IF Len(request_line) < 3 THEN "400"
      ELSE IF version # PROTOCOL_VERSION THEN "505"
      ELSE IF method = "ADD"
             THEN (IF AddWellFormed(rfc_part, headers) THEN "ADD" ELSE "400")
      ELSE IF method = "LOOKUP"
             THEN (IF LookupWellFormed(rfc_part) THEN "LOOKUP" ELSE "400")
      ELSE IF method = "LIST" THEN "LIST"
      ELSE "400"

\* ---------------------------------------------------------------------------
\* Registry operations (the statements executed under self.lock)
\* ---------------------------------------------------------------------------
\* if x not in lst: lst.insert(0, x)
InsertIfAbsent(lst, x) == IF x \in Range(lst) THEN lst ELSE <<x>> \o lst

\* faulty variant: the insert without the "not in self.peers" test
InsertPeerUnchecked(ps, id) == <<id>> \o ps

\* register_peer / handle_add lines 159-160
InsertPeer(ps, id) == InsertIfAbsent(ps, id)

\* faulty variant: handle_add appending the new record instead of insert(0, ...)
InsertRecordAppend(idx, rec) == IF rec \in Range(idx) THEN idx ELSE idx \o <<rec>>

\* faulty variant: handle_add without the "record not in self.rfc_index" test
InsertRecordUnchecked(idx, rec) == <<rec>> \o idx

\* handle_add lines 163-165
InsertRecord(idx, rec) == InsertIfAbsent(idx, rec)

\* remove_peer lines 229-232
RemoveFromPeers(ps, id) == SelectSeq(ps, LAMBDA e : e # id)

\* faulty variant: remove_peer dropping the identity but not its records
RemoveFromIndexNothing(idx, id) == idx

\* remove_peer lines 234-238
RemoveFromIndex(idx, id) == SelectSeq(idx, LAMBDA rec : OwnerOf(rec) # id)

\* handle_lookup lines 181-185: the formatted records whose number is rfc_num,
\* in index order
RECURSIVE Matches(_, _)
Matches(idx, rfc_num) ==
  IF idx = << >> THEN << >>
  ELSE IF Head(idx)[1] = rfc_num
         THEN <<FormatRecord(Head(idx))>> \o Matches(Tail(idx), rfc_num)
         ELSE Matches(Tail(idx), rfc_num)

\* handle_list lines 195-198
ListLines(idx) == [i \in 1..Len(idx) |-> FormatRecord(idx[i])]

\* faulty variant: handle_lookup without the "if r == rfc_num" filter
LookupResponseUnfiltered(idx, rfc_num) ==
  IF idx # << >> THEN _build_response(200, "OK", ListLines(idx))
  ELSE _build_response(404, "Not Found", << >>)

\* handle_lookup lines 187-191
LookupResponse(idx, rfc_num) ==
  LET matches == Matches(idx, rfc_num)
  IN  IF matches # << >> THEN _build_response(200, "OK", matches)
      ELSE _build_response(404, "Not Found", << >>)

\* faulty variant: handle_list answering an empty index like a failed lookup
ListResponseOrNotFound(idx) ==
  IF idx # << >> THEN _build_response(200, "OK", ListLines(idx))
  ELSE _build_response(404, "Not Found", << >>)

\* handle_list lines 200-201
ListResponse(idx) == _build_response(200, "OK", ListLines(idx))

\* handle_add lines 168-169
AddResponse(rec) == _build_response(200, "OK", <<FormatRecord(rec)>>)

\* ---------------------------------------------------------------------------
\* What a connection's recv can return
\* ---------------------------------------------------------------------------
\* CRLF.join([request line, header lines..., ""]), as peer.py builds requests
Request(request_line, header_lines) ==
  <<ReqLine(request_line)>> \o header_lines \o <<BlankLine>>

Hdrs(host, hostname, port, title) ==
     (IF host = "" THEN << >> ELSE <<HdrLine("Host", host)>>)
  \o (IF hostname = "" THEN << >> ELSE <<HdrLine("Hostname", hostname)>>)
  \o (IF port = "" THEN << >> ELSE <<HdrLine("Port", port)>>)
  \o (IF title = "" THEN << >> ELSE <<HdrLine("Title", title)>>)

OtherVersion == "PCP-CI/2.0"

Requests ==
  { \* well-formed ADDs: two numbers, three identities, a defaulted name, port 0
    Request(<<"ADD", "RFC", "1", PROTOCOL_VERSION>>, Hdrs("h1", "A", "7001", "T")),
    Request(<<"ADD", "RFC", "2", PROTOCOL_VERSION>>, Hdrs("h1", "A", "7001", "T")),
    Request(<<"ADD", "RFC", "1", PROTOCOL_VERSION>>, Hdrs("h1", "A", "7002", "T")),
    Request(<<"ADD", "RFC", "1", PROTOCOL_VERSION>>, Hdrs("h1", "", "7001", "T")),
    Request(<<"ADD", "RFC", "1", PROTOCOL_VERSION>>, Hdrs("h1", "A", "0", "T")),
    \* version mismatch
    Request(<<"ADD", "RFC", "1", OtherVersion>>, Hdrs("h1", "A", "7001", "T")),
    Request(<<"LIST", "ALL", OtherVersion>>, << >>),
    \* bad requests
    Request(<<"ADD", "RFC", "x", PROTOCOL_VERSION>>, Hdrs("h1", "A", "7001", "T")),
    Request(<<"ADD", "RFC", "1", PROTOCOL_VERSION>>, Hdrs("h1", "A", "x", "T")),
    Request(<<"ADD", "RFC", "1", PROTOCOL_VERSION>>, Hdrs("h1", "A", "7001", "")),
    Request(<<"ADD", "RFC", "1", PROTOCOL_VERSION>>, Hdrs("", "A", "7001", "T")),
    Request(<<"ADD", "RFC", "1", PROTOCOL_VERSION>>, Hdrs("h1", "A", "", "T")),
    Request(<<"ADD", "RFC">>, Hdrs("h1", "A", "7001", "T")),
    Request(<<"LOOKUP", "ALL", "1", PROTOCOL_VERSION>>, << >>),
    Request(<<"GET", "RFC", "1", PROTOCOL_VERSION>>, Hdrs("h1", "A", "7001", "")),
    \* queries
    Request(<<"LOOKUP", "RFC", "01", PROTOCOL_VERSION>>, Hdrs("h1", "A", "7001", "")),
    Request(<<"LOOKUP", "RFC", "2", PROTOCOL_VERSION>>, Hdrs("h1", "A", "7002", "")),
    Request(<<"LIST", "ALL", PROTOCOL_VERSION>>, Hdrs("h1", "A", "7001", "")),
    Request(<<"LIST", "ALL", PROTOCOL_VERSION>>, << >>) }

\* The byte stream of a connection need not be read request by request: one
\* recv can return two requests at once, or the front part of one request.
TwoInOne ==
     <<ReqLine(<<"LIST", "ALL", PROTOCOL_VERSION>>)>> \o Hdrs("h1", "A", "7001", "")
  \o <<ReqLine(<<"LOOKUP", "RFC", "2", PROTOCOL_VERSION>>)>> \o Hdrs("h1", "A", "7001", "")
  \o <<BlankLine>>

FirstPart ==
  <<ReqLine(<<"ADD", "RFC", "1", PROTOCOL_VERSION>>)>> \o Hdrs("h1", "A", "", "")

SecondPart == Hdrs("", "", "7001", "T") \o <<BlankLine>>

Chunks == Requests \cup {TwoInOne, FirstPart, SecondPart}

\* how many requests have their last byte in the chunk
EndsIn(d) == IF d = TwoInOne THEN 2 ELSE IF d = FirstPart THEN 0 ELSE 1

\* ---------------------------------------------------------------------------
\* Peer-to-peer text: files and responses are sequences of characters
\* ---------------------------------------------------------------------------
MaxLen == 4            \* characters in a file or a response body

CR == "\r"
LF == "\n"
CRLF == <<CR, LF>>
Chars == {CR, LF, "x"}
Contents == UNION {[1..n -> Chars] : n \in 0..MaxLen}

Docs == {1, 2}

Min(S) == CHOOSE x \in S : \A y \in S : x <= y

\* str.find(sub): the lowest 0-based index at which sub starts, else -1
Find(s, sub) ==
  LET hits == {i \in 0..(Len(s) - Len(sub)) : SubSeq(s, i + 1, i + Len(sub)) = sub}
  IN  IF hits = {} THEN -1 ELSE Min(hits)

\* s[:k] and s[k:]
Upto(s, k) == SubSeq(s, 1, k)
From(s, k) == SubSeq(s, k + 1, Len(s))

\* s.splitlines()[0], for a non-empty s: the characters before the first line end
FirstLine(s) ==
  LET ends == {i \in 1..Len(s) : s[i] \in {CR, LF}}
  IN  IF ends = {} THEN s ELSE SubSeq(s, 1, Min(ends) - 1)

\* CRLF.join(lines) / "\n".join(lines)
RECURSIVE Join(_, _)
Join(lines, eol) ==
  IF lines = << >> THEN << >>
  ELSE IF Len(lines) = 1 THEN lines[1]
  ELSE lines[1] \o eol \o Join(Tail(lines), eol)

\* open(path, 'r').read(): text mode turns "\r\n" and "\r" into "\n"
RECURSIVE ReadText(_)
ReadText(bytes) ==
  IF bytes = << >> THEN << >>
  ELSE IF Head(bytes) = CR
         THEN IF Len(bytes) >= 2 /\ bytes[2] = LF
                THEN <<LF>> \o ReadText(SubSeq(bytes, 3, Len(bytes)))
                ELSE <<LF>> \o ReadText(Tail(bytes))
  ELSE <<Head(bytes)>> \o ReadText(Tail(bytes))

\* open(path, 'w').write(text): text mode turns "\n" into os.linesep
RECURSIVE WriteText(_, _)
WriteText(text, sep) ==
  IF text = << >> THEN << >>
  ELSE (IF Head(text) = LF THEN sep ELSE <<Head(text)>>) \o WriteText(Tail(text), sep)

\* status lines f"{version} <code> <phrase>", each one character of the text
StatusLine(code) ==
  IF code = 200 THEN <<"PCP-CI/1.0 200 OK">>
  ELSE IF code = 400 THEN <<"PCP-CI/1.0 400 Bad Request">>
  ELSE IF code = 404 THEN <<"PCP-CI/1.0 404 Not Found">>
  ELSE <<"PCP-CI/1.0 505 PCP-CI Version Not Supported">>

\* "200 OK" in status_line
Has200(status_line) == \E i \in 1..Len(status_line) : status_line[i] = StatusLine(200)[1]

\* the header lines of a 200 response of process_upload_request, each one character
UploadHeaders ==
  << <<"Date">>, <<"OS">>, <<"Last-Modified">>, <<"Content-Length">>, <<"Content-Type">> >>

\* P2PPeer.process_upload_request, for default_protocol_version = PROTOCOL_VERSION
process_upload_request(request, files) ==
  LET request_line == SplitLines(request)[1].toks
      error(code) == StatusLine(code) \o CRLF \o CRLF
  IN  IF Len(request_line) < 4 \/ request_line[1] # "GET" \/ request_line[2] # "RFC"
        THEN error(400)
      ELSE IF ~IsIntLiteral(request_line[3]) THEN error(400)
      ELSE IF request_line[4] # PROTOCOL_VERSION THEN error(505)
      ELSE IF int(request_line[3]) \notin DOMAIN files
              \/ files[int(request_line[3])] = None
        THEN error(404)
      ELSE LET content == ReadText(Val(files[int(request_line[3])]))
           IN  Join(<<StatusLine(200)>> \o UploadHeaders \o << << >>, content >>, CRLF)

\* get_rfc lines 215-231: where the body starts, the status line, the body.
\* ok is FALSE where get_rfc returns False (no separator, no first line, no "200 OK").
ParseResponse(resp) ==
  LET crlf_index == Find(resp, CRLF \o CRLF)
      lf_index == Find(resp, <<LF, LF>>)
      split_index == IF crlf_index # -1 THEN crlf_index ELSE lf_index
      sep_len == IF crlf_index # -1 THEN 4 ELSE 2
      found == split_index # -1 /\ Upto(resp, split_index) # << >>
      status_line == IF found THEN FirstLine(Upto(resp, split_index)) ELSE << >>
  IN  [ok |-> found /\ Has200(status_line),
       found |-> found,
       status_line |-> status_line,
       content |-> IF found THEN From(resp, split_index + sep_len) ELSE << >>]

\* get_rfc lines 195-202: the request B sends
GetRequest(rfc_num, version) ==
  <<ReqLine(<<"GET", "RFC", str(rfc_num), version>>),
    HdrLine("Host", "h2"), HdrLine("Hostname", "B"), HdrLine("OS", "os"), BlankLine>>

\* ---------------------------------------------------------------------------
\* State
\* ---------------------------------------------------------------------------
VARIABLES
  peers,            \* P2PServer.peers: list of (peer_name, host, port), newest first
  rfc_index,        \* P2PServer.rfc_index: list of (rfc_num, title, peer_name, host, port)
  lock,             \* P2PServer.lock: None when free, <<c>> when thread c holds it
  pc,               \* where each connection's handle_client thread is
  data,             \* handle_client: the text of the message being handled
  peer_host,        \* handle_client locals
  peer_name,
  peer_port,
  peer_registered,
  response,         \* handle_client: the response about to be sent
  nmsgs,            \* reads that returned data so far
  \* history of the run (not program state)
  regId,            \* the identity each connection passed to register_peer
  ids,              \* the identities each connection registered or ADDed with
  peersBy,          \* for each entry of peers, the connection that inserted it
  indexBy,          \* for each entry of rfc_index, the connection that inserted it
  mutated,          \* handling the current message has changed peers or rfc_index
  unanswered,       \* per connection: requests read to their end minus responses written
  partial,          \* per connection: the last read ended in the middle of a request
  \* peer to peer: peer B fetches a document from peer A
  filesA,           \* A's rfc_dir: for each number, None or <<the file's characters>>
  filesB,           \* B's rfc_dir, likewise
  linesep,          \* os.linesep of B's platform
  gpc,              \* where B's get_rfc call is
  gnum,             \* get_rfc's rfc_num
  greq,             \* the request A's responder reads
  gresp,            \* the characters B has read when A closes the connection
  gret,             \* what get_rfc returned: None until it returns
  upl,              \* A's handler on this connection: recv calls made, responses
                    \* sent, and whether it has closed the socket
  \* response parsing applied to one response in its two spellings
  parseIn,
  parseOut,
  \* a peer's directory client on its persistent connection to the server
  cpc,              \* where the current add_rfc / lookup_rfc / list_rfcs call is
  ckind,            \* the method of the current call
  sock,             \* bytes the server has sent that the client has not read yet
  full,             \* for each call so far, the length of the server's response to it
  returned          \* for each finished call, the bytes its recv returned

svars == <<peers, rfc_index, lock, pc, data, peer_host, peer_name, peer_port,
           peer_registered, response, nmsgs, regId, ids, peersBy, indexBy, mutated,
           unanswered, partial>>
wvars == <<unanswered, partial>>
pvars == <<filesA, filesB, linesep, gpc, gnum, greq, gresp, gret, upl>>
xvars == <<parseIn, parseOut>>
cvars == <<cpc, ckind, sock, full, returned>>
vars == <<svars, pvars, xvars, cvars>>


\* Python truthiness of an optional string / optional int
TruthyStr(o) == o # None /\ Val(o) # ""
TruthyInt(o) == o # None /\ Val(o) # 0

\* faulty variant: the registry operations without "with self.lock"
CanAcquireUnlocked(c) == TRUE

\* with self.lock: thread c can enter its critical section
CanAcquire(c) == lock = None

\* faulty variant: the handler returns to its socket with the lock still held
LockKept(c) == Some(c)

\* the end of a "with self.lock" block: the lock is released
LockReleased(c) == None

\* the peers before any fetch, with no files
PeersIdle ==
  /\ filesA = [n \in Docs |-> None]
  /\ filesB = [n \in Docs |-> None]
  /\ linesep = <<LF>>
  /\ gpc = "idle"
  /\ gnum = None
  /\ greq = << >>
  /\ gresp = << >>
  /\ gret = None
  /\ upl = [reads |-> 0, resps |-> 0, closed |-> FALSE]

ParseIdle ==
  /\ parseIn = [status |-> StatusLine(200), headers |-> << >>, body |-> << >>]
  /\ parseOut = None

\* connect_to_server has returned and no call has been made
ClientIdle ==
  /\ cpc = "idle"
  /\ ckind = ""
  /\ sock = << >>
  /\ full = << >>
  /\ returned = << >>

\* P2PServer.__init__, and start() having accepted every connection
ServerInit ==
  /\ peers = << >>
  /\ rfc_index = << >>
  /\ lock = None
  /\ pc = [c \in Conns |-> "recv"]
  /\ data = [c \in Conns |-> << >>]
  /\ peer_host = [c \in Conns |-> None]
  /\ peer_name = [c \in Conns |-> None]
  /\ peer_port = [c \in Conns |-> None]
  /\ peer_registered = [c \in Conns |-> FALSE]
  /\ response = [c \in Conns |-> NoResponse]
  /\ nmsgs = 0
  /\ regId = [c \in Conns |-> None]
  /\ ids = [c \in Conns |-> {}]
  /\ peersBy = << >>
  /\ indexBy = << >>
  /\ mutated = [c \in Conns |-> FALSE]
  /\ unanswered = [c \in Conns |-> 0]
  /\ partial = [c \in Conns |-> FALSE]

Init == ServerInit /\ PeersIdle /\ ParseIdle /\ ClientIdle

\* ---------------------------------------------------------------------------
\* handle_client, one thread per connection
\* ---------------------------------------------------------------------------
\* lines 66-84: recv returns a message; Host, Hostname and Port are tracked
Recv(c, d) ==
  LET headers == extract_headers(d)
      host == IF "Host" \in DOMAIN headers THEN Some(headers["Host"]) ELSE peer_host[c]
      name == IF "Hostname" \in DOMAIN headers THEN Some(headers["Hostname"])
              ELSE IF TruthyStr(host) /\ ~TruthyStr(peer_name[c]) THEN host
              ELSE peer_name[c]
      port == IF "Port" \in DOMAIN headers /\ IsIntLiteral(headers["Port"])
              THEN Some(int(headers["Port"])) ELSE peer_port[c]
  IN  /\ pc[c] = "recv"
      /\ nmsgs < MaxMsgs
      /\ partial[c] <=> d = SecondPart
      /\ nmsgs' = nmsgs + 1
      /\ unanswered' = [unanswered EXCEPT ![c] = @ + EndsIn(d)]
      /\ partial' = [partial EXCEPT ![c] = d = FirstPart]
      /\ data' = [data EXCEPT ![c] = d]
      /\ peer_host' = [peer_host EXCEPT ![c] = host]
      /\ peer_name' = [peer_name EXCEPT ![c] = name]
      /\ peer_port' = [peer_port EXCEPT ![c] = port]
      /\ mutated' = [mutated EXCEPT ![c] = FALSE]
      /\ pc' = [pc EXCEPT ![c] =
                  IF TruthyStr(host) /\ TruthyInt(port) /\ TruthyStr(name)
                     /\ ~peer_registered[c]
                  THEN "register" ELSE "process"]
      /\ UNCHANGED <<pvars, xvars, cvars, peers, rfc_index, lock, peer_registered, response, regId, ids,
                     peersBy, indexBy>>

\* lines 85-86 and register_peer (203-209)
RegisterPeer(c) ==
  LET id == <<Val(peer_name[c]), Val(peer_host[c]), Val(peer_port[c])>>
  IN  /\ pc[c] = "register"
      /\ CanAcquire(c)
      /\ peers' = InsertPeer(peers, id)
      /\ peersBy' = IF peers' = peers THEN peersBy ELSE <<c>> \o peersBy
      /\ peer_registered' = [peer_registered EXCEPT ![c] = TRUE]
      /\ regId' = [regId EXCEPT ![c] = Some(id)]
      /\ ids' = [ids EXCEPT ![c] = @ \cup {id}]
      /\ mutated' = [mutated EXCEPT ![c] = @ \/ peers' # peers]
      /\ pc' = [pc EXCEPT ![c] = "process"]
      /\ UNCHANGED <<pvars, xvars, cvars, wvars, rfc_index, lock, data, peer_host, peer_name, peer_port, response,
                     nmsgs, indexBy>>

\* process_request answering 400 or 505 without reaching the registry
Reject(c) ==
  /\ pc[c] = "process"
  /\ process_request(data[c]) \in {"400", "505"}
  /\ response' = [response EXCEPT ![c] =
                    IF process_request(data[c]) = "505" THEN VersionNotSupported
                    ELSE BadRequest]
  /\ pc' = [pc EXCEPT ![c] = "send"]
  /\ UNCHANGED <<pvars, xvars, cvars, wvars, peers, rfc_index, lock, data, peer_host, peer_name, peer_port,
                 peer_registered, nmsgs, regId, ids, peersBy, indexBy, mutated>>

\* handle_add lines 157-160: take the lock, insert the peer if absent
AddPeer(c) ==
  LET rec == AddRecordOf(RfcPartOf(data[c]), extract_headers(data[c]))
      id == OwnerOf(rec)
  IN  /\ pc[c] = "process"
      /\ process_request(data[c]) = "ADD"
      /\ CanAcquire(c)
      /\ lock' = Some(c)
      /\ peers' = InsertPeer(peers, id)
      /\ peersBy' = IF peers' = peers THEN peersBy ELSE <<c>> \o peersBy
      /\ ids' = [ids EXCEPT ![c] = @ \cup {id}]
      /\ mutated' = [mutated EXCEPT ![c] = @ \/ peers' # peers]
      /\ pc' = [pc EXCEPT ![c] = "add_record"]
      /\ UNCHANGED <<pvars, xvars, cvars, wvars, rfc_index, data, peer_host, peer_name, peer_port, peer_registered,
                     response, nmsgs, regId, indexBy>>

\* handle_add lines 162-169: insert the record if absent, release, build the echo
AddRecord(c) ==
  LET rec == AddRecordOf(RfcPartOf(data[c]), extract_headers(data[c]))
  IN  /\ pc[c] = "add_record"
      /\ rfc_index' = InsertRecord(rfc_index, rec)
      /\ indexBy' = IF rfc_index' = rfc_index THEN indexBy ELSE <<c>> \o indexBy
      /\ lock' = LockReleased(c)
      /\ mutated' = [mutated EXCEPT ![c] = @ \/ rfc_index' # rfc_index]
      /\ response' = [response EXCEPT ![c] = AddResponse(rec)]
      /\ pc' = [pc EXCEPT ![c] = "send"]
      /\ UNCHANGED <<pvars, xvars, cvars, wvars, peers, data, peer_host, peer_name, peer_port, peer_registered,
                     nmsgs, regId, ids, peersBy>>

\* handle_lookup lines 180-191
Lookup(c) ==
  /\ pc[c] = "process"
  /\ process_request(data[c]) = "LOOKUP"
  /\ CanAcquire(c)
  /\ response' = [response EXCEPT ![c] =
                    LookupResponse(rfc_index, int(RfcPartOf(data[c])[2]))]
  /\ pc' = [pc EXCEPT ![c] = "send"]
  /\ UNCHANGED <<pvars, xvars, cvars, wvars, peers, rfc_index, lock, data, peer_host, peer_name, peer_port,
                 peer_registered, nmsgs, regId, ids, peersBy, indexBy, mutated>>

\* handle_list lines 194-201
List(c) ==
  /\ pc[c] = "process"
  /\ process_request(data[c]) = "LIST"
  /\ CanAcquire(c)
  /\ response' = [response EXCEPT ![c] = ListResponse(rfc_index)]
  /\ pc' = [pc EXCEPT ![c] = "send"]
  /\ UNCHANGED <<pvars, xvars, cvars, wvars, peers, rfc_index, lock, data, peer_host, peer_name, peer_port,
                 peer_registered, nmsgs, regId, ids, peersBy, indexBy, mutated>>

\* lines 98-103: the finally block decides whether remove_peer runs
AfterLoop(c) ==
  IF peer_name[c] # None /\ peer_port[c] # None /\ peer_host[c] # None
  THEN "remove_peers" ELSE "close"

\* line 92: sendall succeeds, back to recv
Send(c) ==
  /\ pc[c] = "send"
  /\ pc' = [pc EXCEPT ![c] = "recv"]
  /\ data' = [data EXCEPT ![c] = << >>]
  /\ response' = [response EXCEPT ![c] = NoResponse]
  /\ UNCHANGED <<pvars, xvars, cvars, partial, peers, rfc_index, lock, peer_host, peer_name, peer_port,
                 peer_registered, nmsgs, regId, ids, peersBy, indexBy>>
  /\ mutated' = [mutated EXCEPT ![c] = FALSE]
  /\ unanswered' = [unanswered EXCEPT ![c] = @ - 1]

\* line 92 raising (the peer is gone): except, then finally
SendError(c) ==
  /\ pc[c] = "send"
  /\ pc' = [pc EXCEPT ![c] = AfterLoop(c)]
  /\ data' = [data EXCEPT ![c] = << >>]
  /\ response' = [response EXCEPT ![c] = NoResponse]
  /\ UNCHANGED <<pvars, xvars, cvars, wvars, peers, rfc_index, lock, peer_host, peer_name, peer_port,
                 peer_registered, nmsgs, regId, ids, peersBy, indexBy>>
  /\ mutated' = [mutated EXCEPT ![c] = FALSE]

\* lines 66-68: recv returns b"" (the peer closed), break, then finally
RecvEOF(c) ==
  /\ pc[c] = "recv"
  /\ pc' = [pc EXCEPT ![c] = AfterLoop(c)]
  /\ UNCHANGED <<pvars, xvars, cvars, wvars, peers, rfc_index, lock, data, peer_host, peer_name, peer_port,
                 peer_registered, response, nmsgs, regId, ids, peersBy, indexBy,
                 mutated>>

\* line 66 raising (connection reset, undecodable bytes): except, then finally
RecvError(c) ==
  /\ pc[c] = "recv"
  /\ pc' = [pc EXCEPT ![c] = AfterLoop(c)]
  /\ UNCHANGED <<pvars, xvars, cvars, wvars, peers, rfc_index, lock, data, peer_host, peer_name, peer_port,
                 peer_registered, response, nmsgs, regId, ids, peersBy, indexBy,
                 mutated>>

\* remove_peer lines 228-232: take the lock, drop the identity from peers
RemovePeers(c) ==
  LET id == <<Val(peer_name[c]), Val(peer_host[c]), Val(peer_port[c])>>
      keep == {i \in 1..Len(peers) : peers[i] # id}
  IN  /\ pc[c] = "remove_peers"
      /\ CanAcquire(c)
      /\ lock' = Some(c)
      /\ peers' = RemoveFromPeers(peers, id)
      /\ peersBy' = SelectIdx(peersBy, keep)
      /\ pc' = [pc EXCEPT ![c] = "remove_index"]
      /\ UNCHANGED <<pvars, xvars, cvars, wvars, rfc_index, data, peer_host, peer_name, peer_port, peer_registered,
                     response, nmsgs, regId, ids, indexBy, mutated>>

\* remove_peer lines 234-238, the release of the lock, and line 104
RemoveIndex(c) ==
  LET id == <<Val(peer_name[c]), Val(peer_host[c]), Val(peer_port[c])>>
      keep == {i \in 1..Len(rfc_index) : OwnerOf(rfc_index[i]) # id}
  IN  /\ pc[c] = "remove_index"
      /\ rfc_index' = RemoveFromIndex(rfc_index, id)
      /\ indexBy' = SelectIdx(indexBy, keep)
      /\ lock' = LockReleased(c)
      /\ pc' = [pc EXCEPT ![c] = "close"]
      /\ UNCHANGED <<pvars, xvars, cvars, wvars, peers, data, peer_host, peer_name, peer_port, peer_registered,
                     response, nmsgs, regId, ids, peersBy, mutated>>

\* line 104: client_socket.close(); the thread ends
Close(c) ==
  /\ pc[c] = "close"
  /\ pc' = [pc EXCEPT ![c] = "closed"]
  /\ UNCHANGED <<pvars, xvars, cvars, wvars, peers, rfc_index, lock, data, peer_host, peer_name, peer_port,
                 peer_registered, response, nmsgs, regId, ids, peersBy, indexBy,
                 mutated>>

Next ==
  \E c \in Conns :
    \/ \E d \in Chunks : Recv(c, d)
    \/ RegisterPeer(c)
    \/ Reject(c)
    \/ AddPeer(c)
    \/ AddRecord(c)
    \/ Lookup(c)
    \/ List(c)
    \/ Send(c)
    \/ SendError(c)
    \/ RecvEOF(c)
    \/ RecvError(c)
    \/ RemovePeers(c)
    \/ RemoveIndex(c)
    \/ Close(c)

Spec == Init /\ [][Next]_vars

\* ---------------------------------------------------------------------------
\* Peer B fetches a document from peer A (get_rfc against handle_upload_request)
\* ---------------------------------------------------------------------------
InitFetch ==
  /\ ServerInit
  /\ ParseIdle
  /\ ClientIdle
  /\ \E f \in {None} \cup {Some(c) : c \in Contents} :
       filesA = [n \in Docs |-> IF n = 1 THEN f ELSE None]
  /\ \E f \in {None, Some(<<"x">>)} :
       filesB = [n \in Docs |-> IF n = 1 THEN f ELSE None]
  /\ linesep \in {<<LF>>, CRLF}
  /\ gpc = "idle"
  /\ gnum = None
  /\ greq = << >>
  /\ gresp = << >>
  /\ gret = None
  /\ upl = [reads |-> 0, resps |-> 0, closed |-> FALSE]

\* get_rfc lines 191-204: connect and send the request
GetSend(rfc_num, version) ==
  /\ gpc = "idle"
  /\ gnum' = Some(rfc_num)
  /\ greq' = GetRequest(rfc_num, version)
  /\ gpc' = "sent"
  /\ UNCHANGED <<svars, xvars, cvars, upl, filesA, filesB, linesep, gresp, gret>>

\* get_rfc lines 193/204 raising (A unreachable): except, return False
GetConnectError(rfc_num) ==
  /\ gpc = "idle"
  /\ gnum' = Some(rfc_num)
  /\ gret' = Some(FALSE)
  /\ gpc' = "done"
  /\ UNCHANGED <<svars, xvars, cvars, upl, filesA, filesB, linesep, greq, gresp>>

\* what another client can write to A's upload port: request lines that are
\* not get_rfc's
RawRequests ==
  { <<ReqLine(<<"GET", "RFC", "1">>), BlankLine>>,
    <<ReqLine(<<"PUT", "RFC", "1", PROTOCOL_VERSION>>), BlankLine>>,
    <<ReqLine(<<"GET", "DOC", "1", PROTOCOL_VERSION>>), BlankLine>>,
    <<ReqLine(<<"GET", "RFC", "x", PROTOCOL_VERSION>>), BlankLine>>,
    <<ReqLine(<<"GET", "RFC", "x", OtherVersion>>), BlankLine>>,
    <<ReqLine(<<"GET", "RFC", "1", PROTOCOL_VERSION, "now">>), BlankLine>>,
    <<ReqLine(<<"GET", "RFC", "1", OtherVersion, PROTOCOL_VERSION>>), BlankLine>> }

\* handle_uploads lines 57-66: A accepts a connection of any client, which
\* writes req
RawSend(req) ==
  /\ gpc = "idle"
  /\ greq' = req
  /\ gpc' = "raw"
  /\ UNCHANGED <<svars, xvars, cvars, upl, filesA, filesB, linesep, gnum, gresp, gret>>

\* faulty variant: the handler goes back to recv after its response, as the
\* directory server's handler does
AfterUploadKeepAlive == gpc

\* the connection after A's handler has closed it
AfterUpload == IF gpc = "raw" THEN "raw_done" ELSE "closed_by_A"

\* handle_upload_request line 76: the handler has run client_socket.close()
HandlerClosed == AfterUpload \in {"closed_by_A", "raw_done"}

\* handle_upload_request: read the request, send the response, close
Upload ==
  /\ gpc \in {"sent", "raw"}
  /\ gresp' = process_upload_request(greq, filesA)
  /\ gpc' = AfterUpload
  /\ upl' = [reads |-> upl.reads + 1, resps |-> upl.resps + 1, closed |-> HandlerClosed]
  /\ UNCHANGED <<svars, xvars, cvars, filesA, filesB, linesep, gnum, greq, gret>>

\* process_upload_request lines 101-103 and 121-122: the file exists but
\* open() or read() raises (unreadable, not UTF-8); the answer is 404
UploadReadFails ==
  /\ gpc \in {"sent", "raw"}
  /\ Upto(process_upload_request(greq, filesA), 1) = StatusLine(200)
  /\ gresp' = StatusLine(404) \o CRLF \o CRLF
  /\ gpc' = AfterUpload
  /\ upl' = [reads |-> upl.reads + 1, resps |-> upl.resps + 1, closed |-> HandlerClosed]
  /\ UNCHANGED <<svars, xvars, cvars, filesA, filesB, linesep, gnum, greq, gret>>

\* faulty variant: the close only after a successful send, not in a finally
\* block; a handler that raises leaves its socket open
AfterUploadErrorLeftOpen == "left_open"

\* handle_upload_request lines 73-76: the except clause passes and the finally
\* block closes the socket
AfterUploadError == AfterUpload

\* handle_upload_request lines 73-76: recv, decode or sendall raises; close
UploadError ==
  /\ gpc \in {"sent", "raw"}
  /\ gresp' = << >>
  /\ gpc' = AfterUploadError
  /\ upl' = [reads |-> upl.reads + 1, resps |-> upl.resps, closed |-> HandlerClosed]
  /\ UNCHANGED <<svars, xvars, cvars, filesA, filesB, linesep, gnum, greq, gret>>

\* get_rfc lines 206-238: everything up to the close is the response; parse it,
\* store the body, return
GetFinish ==
  LET r == ParseResponse(gresp)
  IN  /\ gpc = "closed_by_A"
      /\ gret' = Some(r.ok)
      /\ filesB' = IF r.ok
                     THEN [filesB EXCEPT ![Val(gnum)] = Some(WriteText(r.content, linesep))]
                     ELSE filesB
      /\ gpc' = "done"
      /\ UNCHANGED <<svars, xvars, cvars, upl, filesA, linesep, gnum, greq, gresp>>

\* get_rfc lines 233-237 raising, then lines 240-242: open(rfc_file, 'w') raises
\* and the file is as it was; or open has truncated the file and write or the
\* closing flush raises (text not encodable for the platform, disk full), which
\* leaves a prefix of the text; or the print of line 237 raises after the whole
\* text was written; return False
GetWriteFails ==
  LET r == ParseResponse(gresp)
      text == WriteText(r.content, linesep)
  IN  /\ gpc = "closed_by_A"
      /\ r.ok
      /\ \/ filesB' = filesB
         \/ \E k \in 0..Len(text) :
              filesB' = [filesB EXCEPT ![Val(gnum)] = Some(Upto(text, k))]
      /\ gret' = Some(FALSE)
      /\ gpc' = "done"
      /\ UNCHANGED <<svars, xvars, cvars, upl, filesA, linesep, gnum, greq, gresp>>

\* get_rfc line 209 raising (connection reset): except, return False
GetRecvError ==
  /\ gpc \in {"sent", "closed_by_A"}
  /\ gret' = Some(FALSE)
  /\ gpc' = "done"
  /\ UNCHANGED <<svars, xvars, cvars, upl, filesA, filesB, linesep, gnum, greq, gresp>>

NextFetch ==
  \/ \E n \in Docs, v \in {PROTOCOL_VERSION, OtherVersion} : GetSend(n, v)
  \/ \E n \in Docs : GetConnectError(n)
  \/ \E req \in RawRequests : RawSend(req)
  \/ Upload
  \/ UploadReadFails
  \/ UploadError
  \/ GetFinish
  \/ GetWriteFails
  \/ GetRecvError

SpecFetch == InitFetch /\ [][NextFetch]_vars

\* The fetch with A's files drawn from the shorter contents
MaxLenLive == 2        \* characters in a file of A when termination is checked

InitFetchLive == InitFetch /\ (filesA[1] # None => Len(Val(filesA[1])) <= MaxLenLive)

\* A's handler thread, started for the accepted connection (handle_uploads
\* lines 60-63), runs to its end; B's thread, once its recv loop has seen the
\* close, runs get_rfc to its return.  No failure is assumed to happen.
SpecFetchLive ==
  /\ InitFetchLive
  /\ [][NextFetch]_vars
  /\ WF_vars(Upload \/ UploadReadFails \/ UploadError)
  /\ WF_vars(GetFinish \/ GetWriteFails)

\* ---------------------------------------------------------------------------
\* get_rfc's response parsing on one response spelled with CRLF and with LF
\* ---------------------------------------------------------------------------
ParseInputs ==
  [status : {StatusLine(200), StatusLine(404)},
   headers : {<< >>, << <<"Date">> >>, UploadHeaders},
   body : Contents]

\* status line, header lines, a blank line, the body; lines end with eol
WireText(in, eol) == Join(<<in.status>> \o in.headers \o << << >>, in.body >>, eol)

InitParse ==
  /\ ServerInit
  /\ PeersIdle
  /\ ClientIdle
  /\ parseIn \in ParseInputs
  /\ parseOut = None

ParseBoth ==
  /\ parseOut = None
  /\ parseOut' = Some([crlf |-> ParseResponse(WireText(parseIn, CRLF)),
                       lf |-> ParseResponse(WireText(parseIn, <<LF>>))])
  /\ UNCHANGED <<svars, pvars, cvars, parseIn>>

NextParse == ParseBoth

SpecParse == InitParse /\ [][NextParse]_vars

\* ---------------------------------------------------------------------------
\* A peer's directory client: add_rfc, lookup_rfc and list_rfcs on one connection
\* ---------------------------------------------------------------------------
MaxCalls == 3          \* calls made on the connection

\* the buffer size of the client's recv
RECV_SIZE == 4096

\* lengths in bytes of the server's responses: an ADD's echo is short, the
\* body of a LOOKUP or LIST grows with the index
Lengths == {60, 120, RECV_SIZE, RECV_SIZE + 1, 9000}
ResponseLengths(kind) == IF kind = "ADD" THEN {120} ELSE Lengths

\* bytes from..to of the response to call number of
Bytes(k, from, to) == [of |-> k, from |-> from, to |-> to]
Size(seg) == seg.to - seg.from + 1

\* the first n bytes of a stream of segments, and the stream without them
RECURSIVE TakeBytes(_, _)
TakeBytes(s, n) ==
  IF s = << >> \/ n = 0 THEN << >>
  ELSE IF Size(Head(s)) <= n
         THEN <<Head(s)>> \o TakeBytes(Tail(s), n - Size(Head(s)))
  ELSE <<[Head(s) EXCEPT !.to = Head(s).from + n - 1]>>

RECURSIVE DropBytes(_, _)
DropBytes(s, n) ==
  IF s = << >> \/ n = 0 THEN s
  ELSE IF Size(Head(s)) <= n THEN DropBytes(Tail(s), n - Size(Head(s)))
  ELSE <<[Head(s) EXCEPT !.from = Head(s).from + n]>> \o Tail(s)

\* add_rfc line 153, lookup_rfc line 167, list_rfcs line 182: sendall(request)
ClientSend(kind) ==
  /\ cpc = "idle"
  /\ Len(full) < MaxCalls
  /\ ckind' = kind
  /\ cpc' = "sent"
  /\ UNCHANGED <<svars, pvars, xvars, sock, full, returned>>

\* the server's handle_client answers the request: sendall(response), all of
\* which reaches the client's socket before the client reads
ServerAnswer(len) ==
  /\ cpc = "sent"
  /\ len \in ResponseLengths(ckind)
  /\ sock' = Append(sock, Bytes(Len(full) + 1, 1, len))
  /\ full' = Append(full, len)
  /\ cpc' = "answered"
  /\ UNCHANGED <<svars, pvars, xvars, ckind, returned>>

\* add_rfc line 154, lookup_rfc line 168, list_rfcs line 183: one recv(4096),
\* whose result the call prints or returns
ClientRecv ==
  /\ cpc = "answered"
  /\ returned' = Append(returned, TakeBytes(sock, RECV_SIZE))
  /\ sock' = DropBytes(sock, RECV_SIZE)
  /\ cpc' = "idle"
  /\ UNCHANGED <<svars, pvars, xvars, ckind, full>>

NextClient ==
  \/ \E kind \in {"ADD", "LOOKUP", "LIST"} : ClientSend(kind)
  \/ \E len \in Lengths : ServerAnswer(len)
  \/ ClientRecv

SpecClient == Init /\ [][NextClient]_vars

\* ===========================================================================
\* Properties
\* ===========================================================================
\* the request being handled by connection c
RecordOfData(c) == AddRecordOf(RfcPartOf(data[c]), extract_headers(data[c]))
VersionTokenOf(request) == RequestLineOf(request)[Len(RequestLineOf(request))]
Answered(c) == pc[c] = "send"

\* C1 -- Teardown cleanup: once a connection is closed, the index holds no
\* record that an ADD on that connection inserted, and the peer set does not
\* hold the identity the connection registered (as the entry it inserted).
C1_TeardownCleanup ==
  \A c \in Conns :
    pc[c] = "closed" =>
      /\ \A i \in 1..Len(rfc_index) : indexBy[i] # c
      /\ regId[c] # None =>
           \A i \in 1..Len(peers) : ~(peers[i] = Val(regId[c]) /\ peersBy[i] = c)

\* C2 -- Version gate: a request whose request line carries a version token
\* other than the protocol token is answered 505, and handling it has changed
\* neither the peer set nor the document index.
C2_VersionGate ==
  \A c \in Conns :
    (/\ Answered(c)
     /\ Len(RequestLineOf(data[c])) >= 3
     /\ VersionTokenOf(data[c]) # PROTOCOL_VERSION)
    => (response[c].code = 505 /\ ~mutated[c])

\* C3 -- Protocol errors cause no state mutation: handling a request that is
\* answered 400 has changed neither the peer set nor the document index.
C3_BadRequestNoMutation ==
  \A c \in Conns :
    (Answered(c) /\ response[c].code = 400) => ~mutated[c]

\* C4 -- Idempotent add: the index never holds a tuple twice; an ADD of a
\* tuple that is already indexed leaves the index unchanged, and every ADD is
\* answered 200 with the tuple echoed.
NoDuplicates(lst) == \A i, j \in 1..Len(lst) : lst[i] = lst[j] => i = j

C4_IdempotentAdd ==
  [][ /\ NoDuplicates(rfc_index')
      /\ \A c \in Conns :
           (pc[c] = "add_record" /\ pc'[c] = "send") =>
             /\ RecordOfData(c) \in Range(rfc_index) => rfc_index' = rfc_index
             /\ RecordOfData(c) \in Range(rfc_index')
             /\ response'[c].code = 200
             /\ response'[c].body = <<FormatRecord(RecordOfData(c))>>
    ]_vars

\* an ADD of an already indexed tuple has been answered
C4_Witness ==
  \E c \in Conns :
    /\ Answered(c)
    /\ process_request(data[c]) = "ADD"
    /\ ~mutated[c]
    /\ response[c].code = 200
    /\ RecordOfData(c) \in Range(rfc_index)

\* C5 -- Lookup filter: the body of a LOOKUP for n has one line for each
\* record of the index whose number is n, and no other line.
C5_LookupFilter ==
  [][ \A c \in Conns :
        (pc[c] = "process" /\ pc'[c] = "send" /\ process_request(data[c]) = "LOOKUP") =>
          LET n == int(RfcPartOf(data[c])[2])
              hits == {i \in 1..Len(rfc_index) : rfc_index[i][1] = n}
          IN  /\ Range(response'[c].body) = {FormatRecord(rfc_index[i]) : i \in hits}
              /\ Len(response'[c].body) = Cardinality(hits)
    ]_vars

\* a LOOKUP has been answered with some records while the index also holds a
\* record of another number
C5_Witness ==
  \E c \in Conns :
    /\ Answered(c)
    /\ process_request(data[c]) = "LOOKUP"
    /\ response[c].code = 200
    /\ \E i \in 1..Len(rfc_index) : rfc_index[i][1] # int(RfcPartOf(data[c])[2])
    /\ \E i \in 1..Len(rfc_index) : rfc_index[i][1] = int(RfcPartOf(data[c])[2])

\* C6 -- Round-trip fetch: when get_rfc succeeds, the file B stores for the
\* number is exactly the file A holds for it.
C6_RoundTrip ==
  (gpc = "done" /\ gret = Some(TRUE)) => filesB[Val(gnum)] = filesA[Val(gnum)]

\* C7 -- Separator tolerance: the CRLF spelling and the LF spelling of one
\* response give the same status line and the same body, which is the body
\* the response was built with.
C7_SeparatorTolerance ==
  parseOut # None =>
    /\ Val(parseOut).crlf.status_line = Val(parseOut).lf.status_line
    /\ Val(parseOut).crlf.content = Val(parseOut).lf.content
    /\ Val(parseOut).lf.content = parseIn.body

\* C8 -- Peer-set invariant: when no handler is in the middle of a message or
\* of its teardown, an identity is in the peer set iff some open connection
\* has registered it (by register_peer or by an ADD).
Quiescent == \A c \in Conns : pc[c] \in {"recv", "closed"}

C8_PeerSetInvariant ==
  Quiescent =>
    \A id \in Range(peers) \cup UNION {ids[c] : c \in Conns} :
      id \in Range(peers) <=> \E c \in Conns : pc[c] # "closed" /\ id \in ids[c]

\* C9 -- Error containment: no step removes a peer-set entry or a record that
\* was inserted through a connection that is still open (its handler has not
\* left the read loop).
Open(c) == pc[c] \in {"recv", "register", "process", "add_record", "send"}

C9_Containment ==
  [][ \A d \in Conns :
        Open(d) =>
          /\ \A i \in 1..Len(peers) : peersBy[i] = d => peers[i] \in Range(peers')
          /\ \A i \in 1..Len(rfc_index) :
               indexBy[i] = d => rfc_index[i] \in Range(rfc_index')
    ]_vars

\* C10 -- Registry atomicity: a registry operation of one thread (register_peer,
\* the two inserts of ADD, the two filters of remove_peer, the read of LOOKUP or
\* LIST) never takes a step while another thread is between the two halves of
\* an ADD or of a remove_peer.
InSection(c) == pc[c] \in {"add_record", "remove_index"}

RegistryStep(c) ==
  /\ pc'[c] # pc[c]
  /\ \/ pc[c] \in {"register", "add_record", "remove_peers", "remove_index"}
     \/ pc[c] = "process" /\ process_request(data[c]) \in {"ADD", "LOOKUP", "LIST"}

C10_RegistryAtomic ==
  [][ \A c \in Conns :
        RegistryStep(c) => \A d \in Conns \ {c} : ~InSection(d)
    ]_vars

\* a LOOKUP or LIST is waiting while another thread is between the halves of
\* an ADD or of a remove_peer
C10_Witness ==
  \E c, d \in Conns :
    /\ c # d
    /\ InSection(c)
    /\ lock = Some(c)
    /\ pc[d] = "process"
    /\ process_request(data[d]) \in {"LOOKUP", "LIST"}

\* C11 -- Lookup and list status: a LOOKUP for n that reaches handle_lookup is
\* answered 200 OK when the index holds a record with number n at the moment it
\* is read and 404 Not Found otherwise; a LIST is answered 200 OK, with an
\* empty body when the index is empty.
C11_LookupListStatus ==
  [][ \A c \in Conns :
        (pc[c] = "process" /\ pc'[c] = "send") =>
          /\ process_request(data[c]) = "LOOKUP" =>
                LET n == int(RfcPartOf(data[c])[2])
                IN  IF \E i \in 1..Len(rfc_index) : rfc_index[i][1] = n
                    THEN response'[c].code = 200 /\ response'[c].phrase = "OK"
                    ELSE /\ response'[c].code = 404
                         /\ response'[c].phrase = "Not Found"
          /\ process_request(data[c]) = "LIST" =>
                /\ response'[c].code = 200
                /\ response'[c].phrase = "OK"
                /\ rfc_index = << >> => response'[c].body = << >>
    ]_vars

\* a connection that added a document without registering (port 0) has
\* closed, the index is empty again, and a LOOKUP on another connection has
\* been answered 404
C11_Witness ==
  \E c, d \in Conns :
    /\ c # d
    /\ pc[d] = "closed"
    /\ regId[d] = None
    /\ ids[d] # {}
    /\ rfc_index = << >>
    /\ Answered(c)
    /\ process_request(data[c]) = "LOOKUP"
    /\ response[c].code = 404

\* C12 -- Document Responder decision: the answer to a request is 400 when its
\* request line is not GET RFC <integer> <version>; otherwise 505 when the
\* version token is not the protocol token; otherwise 404 when A holds no file
\* for the number; otherwise 200 with the file's contents as the body.
UploadBodyOf(resp) ==
  From(resp, Len(Join(<<StatusLine(200)>> \o UploadHeaders, CRLF)) + 4)

C12_ResponderDecision ==
  gresp # << >> =>
    LET request_line == SplitLines(greq)[1].toks
        form == /\ Len(request_line) = 4
                /\ request_line[1] = "GET"
                /\ request_line[2] = "RFC"
                /\ IsIntLiteral(request_line[3])
        n == int(request_line[3])
    IN  IF ~form THEN Upto(gresp, 1) = StatusLine(400)
        ELSE IF request_line[4] # PROTOCOL_VERSION THEN Upto(gresp, 1) = StatusLine(505)
        ELSE IF n \notin DOMAIN filesA \/ filesA[n] = None
          THEN Upto(gresp, 1) = StatusLine(404)
        ELSE /\ Upto(gresp, 1) = StatusLine(200)
             /\ UploadBodyOf(gresp) = Val(filesA[n])

\* C13 -- Teardown identity: the teardown of a connection that registered
\* runs remove_peer, and the identity remove_peer is given is the one the
\* connection passed to register_peer.
RemoveArg(c) == <<Val(peer_name[c]), Val(peer_host[c]), Val(peer_port[c])>>

C13_TeardownIdentity ==
  \A c \in Conns :
    regId[c] # None =>
      /\ AfterLoop(c) = "remove_peers"
      /\ pc[c] \in {"remove_peers", "remove_index"} => RemoveArg(c) = Val(regId[c])

\* C14 -- Unregistered teardown: no teardown step of a connection on which
\* register_peer was never called changes the peer set or the document index.
InTeardown(c) == pc[c] \in {"remove_peers", "remove_index", "close"}

C14_UnregisteredTeardown ==
  [][ \A c \in Conns :
        (InTeardown(c) /\ pc'[c] # pc[c] /\ ~peer_registered[c]) =>
          (peers' = peers /\ rfc_index' = rfc_index)
    ]_vars

\* C15 -- Register once: on a connection register_peer runs at most once; it
\* runs for the first message by which a Host and an integer Port have been
\* supplied; and once it has run, no step of that connection adds an identity
\* other than the registered one to the peer set.
C15_RegisterOnce ==
  [][ \A c \in Conns :
        pc'[c] # pc[c] =>
          /\ pc[c] = "register" => regId[c] = None
          /\ (/\ pc[c] = "recv"
              /\ pc'[c] \in {"register", "process"}
              /\ ~peer_registered[c]
              /\ peer_host'[c] # None
              /\ peer_port'[c] # None) => pc'[c] = "register"
          /\ regId[c] # None => Range(peers') \subseteq Range(peers) \cup {Val(regId[c])}
    ]_vars

\* C16 -- Registration is idempotent under concurrency: in every reachable
\* state the peer set holds each (name, host, port) identity at most once.
C16_PeerSetNoDuplicates == NoDuplicates(peers)

\* two connections have registered the same identity in overlapping messages,
\* and one of them is about to ADD under it
C16_Witness ==
  \E c, d \in Conns :
    /\ c # d
    /\ regId[c] # None
    /\ regId[c] = regId[d]
    /\ pc[c] = "process"
    /\ pc[d] = "process"
    /\ process_request(data[c]) = "ADD"
    /\ OwnerOf(RecordOfData(c)) = Val(regId[c])

\* C17 -- Newest-first ordering: every step keeps the relative order of the
\* records that stay in the index and puts a record that enters it in front of
\* all others, so the index lists the surviving records most recently added
\* first; a LIST returns them in that order and a LOOKUP returns the matching
\* ones in that order.
PosIn(lst, x) == CHOOSE i \in 1..Len(lst) : lst[i] = x

C17_NewestFirst ==
  [][ /\ \A i, j \in 1..Len(rfc_index') :
           (/\ i < j
            /\ rfc_index'[i] \in Range(rfc_index)
            /\ rfc_index'[j] \in Range(rfc_index))
           => PosIn(rfc_index, rfc_index'[i]) < PosIn(rfc_index, rfc_index'[j])
      /\ \A i \in 1..Len(rfc_index') :
           rfc_index'[i] \notin Range(rfc_index) => i = 1
      /\ \A c \in Conns :
           (pc[c] = "process" /\ pc'[c] = "send") =>
             LET lines == [i \in 1..Len(rfc_index) |-> FormatRecord(rfc_index[i])]
             IN  /\ process_request(data[c]) = "LIST" => response'[c].body = lines
                 /\ process_request(data[c]) = "LOOKUP" =>
                       response'[c].body =
                         SelectIdx(lines, {i \in 1..Len(rfc_index) :
                                            rfc_index[i][1] = int(RfcPartOf(data[c])[2])})
    ]_vars

\* a teardown has just removed the record of a connection that added it
\* without registering, and two records of another connection survive
C17_Witness ==
  \E d \in Conns :
    /\ pc[d] = "close"
    /\ regId[d] = None
    /\ ids[d] # {}
    /\ Len(rfc_index) >= 2
    /\ \A i \in 1..Len(rfc_index) : indexBy[i] # d

\* C18 -- No lock across I/O: a thread that is in a socket read, a socket send
\* or a socket close does not hold the registry lock.
InSocketCall(c) == pc[c] \in {"recv", "send", "close"}

C18_NoLockAcrossIO == \A c \in Conns : InSocketCall(c) => lock # Some(c)

\* one thread waits in recv or send for its peer while another thread holds
\* the lock inside a registry operation
C18_Witness ==
  \E c, d \in Conns :
    /\ c # d
    /\ pc[c] \in {"recv", "send"}
    /\ lock = Some(d)
    /\ InSection(d)

\* C19 -- Request/response pairing: whenever the handler of a connection is
\* back in recv and the last read did not end inside a request, it has written
\* one response for each request it has read.
C19_OneResponsePerRequest ==
  \A c \in Conns : (pc[c] = "recv" /\ ~partial[c]) => unanswered[c] = 0

\* C20 -- Directory Client response matching: what each call on the connection
\* returned is the complete response of the server to that call's request.
C20_ResponseMatching ==
  \A k \in 1..Len(returned) : returned[k] = <<Bytes(k, 1, full[k])>>

\* C21 -- Document Responder one-shot, as claimed: once the handler has closed
\* a connection it has read one request and sent exactly one response on it,
\* and it never reads or responds a second time.
C21_OneShot ==
  /\ upl.reads <= 1
  /\ upl.resps <= 1
  /\ upl.closed => (upl.reads = 1 /\ upl.resps = 1)

\* C21 (amended) -- the handler makes one read and sends at most one response
\* on a connection: one when the read, the decoding and the send succeed, none
\* when one of them raises; its single read is followed by the close, and it
\* never reads or responds a second time.
C21_OneShotOrSilent ==
  /\ upl.reads <= 1
  /\ upl.resps <= 1
  /\ upl.reads = 1 <=> upl.closed
  /\ upl.closed => (upl.resps = 1 <=> gresp # << >>)

\* the handler has answered a request of another client and closed
C21_Witness == upl.closed /\ upl.resps = 1 /\ gpc = "raw_done"

\* C22 -- Failed fetch leaves storage untouched: a step of a get_rfc call that
\* returns False, and every step of the call before its return, leaves each of
\* B's stored files exactly as it was.
C22_FailedFetchKeepsFile ==
  [][ gret' # Some(TRUE) => filesB' = filesB ]_vars

\* C23 -- Transport failure is cleaned up: every way out of the read loop is an
\* end-of-stream or an error of a read, decode or send, so a handler that has
\* reached CLOSED got there by one; it then holds no lock and, if its
\* connection registered, nothing that connection put into the peer set or
\* the document index is left.
CleanedUp(c) ==
  /\ \A i \in 1..Len(peers) : peersBy[i] # c
  /\ \A i \in 1..Len(rfc_index) : indexBy[i] # c

C23_FailureCleanedUp ==
  \A c \in Conns :
    pc[c] = "closed" => (lock # Some(c) /\ (regId[c] # None => CleanedUp(c)))

\* C24 -- Referential integrity: whenever the registry lock is free, the owner
\* (name, host, port) of every record of the document index is in the peer set.
C24_OwnersRegistered ==
  lock = None => \A i \in 1..Len(rfc_index) : OwnerOf(rfc_index[i]) \in Range(peers)

\* a teardown has removed an identity that had a record, the lock is free
\* again, and a record of another identity is still indexed
C24_Witness ==
  \E d \in Conns :
    /\ pc[d] = "closed"
    /\ regId[d] = None
    /\ ids[d] # {}
    /\ ids[d] \cap Range(peers) = {}
    /\ lock = None
    /\ rfc_index # << >>

\* C25 -- Document index untouched by rejected requests: every step that
\* changes the document index is the insert of an ADD that is answered 200 or
\* the filter of a teardown's remove_peer; no step of handling a request
\* answered 400 or 505, a LOOKUP or a LIST changes it.
C25_IndexFrame ==
  [][ rfc_index' # rfc_index =>
        \E c \in Conns :
          \/ /\ pc[c] = "add_record"
             /\ pc'[c] = "send"
             /\ RequestLineOf(data[c])[1] = "ADD"
             /\ VersionTokenOf(data[c]) = PROTOCOL_VERSION
             /\ response'[c].code = 200
          \/ pc[c] = "remove_index" /\ pc'[c] = "close"
    ]_vars

\* a request has been answered 400 or 505 after its headers registered the
\* connection, while the index holds a record
C25_Witness ==
  \E c \in Conns :
    /\ Answered(c)
    /\ response[c].code \in {400, 505}
    /\ mutated[c]
    /\ rfc_index # << >>

\* C26 -- Fetch termination: every get_rfc call whose request has been sent to
\* A eventually returns True or False, and a call that has returned has left
\* its try statement through the finally block that closes its socket.
C26_FetchTerminates ==
  /\ (gpc = "sent") ~> (gret \in {Some(TRUE), Some(FALSE)})
  /\ [](gret # None => gpc = "done")

\* A's handler failed before it could respond and closed the connection, and
\* the get_rfc call has returned False
C26_Witness ==
  /\ gpc = "done"
  /\ gret = Some(FALSE)
  /\ upl.closed
  /\ upl.resps = 0
  /\ greq # << >>

====
